---- MODULE Spec2Model ----
(***************************************************************************)
(* Upload / analysis request lifecycle of the FileUpload component         *)
(* (src/unnamed/part_000, lines 409-631) together with the buttons that    *)
(* invoke its handlers.                                                    *)
(*                                                                         *)
(* The browser runs one handler at a time.  A handler runs to its next     *)
(* await or to its end in one step.  The continuation of an awaited        *)
(* promise that an abort() rejected is a microtask: it runs as soon as the *)
(* aborting handler returns, before any other event (MicrotaskPending).    *)
(* Network completions and timer firings are separate events.              *)
(* Timestamps (metadata.processedAt) and toasts are not modelled.          *)
(***************************************************************************)
EXTENDS Integers, Sequences, FiniteSets, TLC

(* ---------------------------- bounds ----------------------------------- *)
\* number of analyzeProposal / runDemo invocations in one behaviour
MaxOps == 4
\* number of distinct model outputs the service can return for one file
MaxBodies == 1

(* ------------------------- program constants --------------------------- *)
DemoDelay == 3000
FallbackDelay == 2000
DemoFileSize == 156789
MockTextLength == 2847
DemoContentBytes == 12

PdfType == "application/pdf"
DemoFileName == "sample-proposal.pdf"

\* the null of the useState cells
Null == [null |-> TRUE]
\* the null of the two useRef cells (controller and timer ids start at 1)
NoController == 0
NoTimer == 0

\* files the user can offer to the dropzone
Candidates ==
  { [name |-> "a.pdf", size |-> 1000, type |-> PdfType],
    [name |-> "b.pdf", size |-> 2000, type |-> PdfType],
    [name |-> "c.txt", size |-> 30, type |-> "text/plain"] }

\* acceptedFiles handed to onDrop: empty, or one file (maxFiles: 1)
AcceptedFileLists == {<<>>} \cup { <<f>> : f \in Candidates }

\* new File(['demo content'], 'sample-proposal.pdf', {type: 'application/pdf'})
demoFile == [name |-> DemoFileName, size |-> DemoContentBytes, type |-> PdfType]

\* HTTP statuses the analysis endpoint and its middleware answer with
OkStatus == 200
NonOkStatuses == {400, 429, 500, 503}

VARIABLES
  file,               \* useState<File | null>
  loading,            \* useState(false)
  result,             \* useState<AnalysisResult | null>
  error,              \* useState<string | null>
  abortControllerRef, \* useRef<AbortController | null>: NoController or an id
  timeoutRef,         \* useRef<Timeout | null>: NoTimer or a timer id
  aborted,            \* controllers whose signal.aborted is true
  timers,             \* pending setTimeout callbacks, in scheduling order
  ops,                \* one record per analyzeProposal / runDemo invocation
  toast,              \* kind of the last toast shown: "none", "success", "error"
  fetchCount,         \* number of fetch() calls made so far
  openai,             \* server: the model client was created at startup
  hits,               \* server: the limiter's request count per client address
  exchange,           \* server: the last request handled and what was sent back
  healthRun,          \* server: per client, health checks sent in this window while
                      \* nothing else was sent in it; -1 once something else was
  exported,           \* what the last step wrote to a new window or downloaded
  isOpen,             \* SampleViewer: the isOpen prop
  pdfError,           \* SampleViewer: useState(false)
  pdfLoading,         \* SampleViewer: useState(true)
  heads,              \* SampleViewer: pending HEAD requests of the open effect
  loadingTimeouts,    \* SampleViewer: pending loading timeouts
  opens,              \* SampleViewer: number of times the viewer was opened
  iframe              \* SampleViewer: "none", "loading" or "loaded"

vars == <<file, loading, result, error, abortControllerRef, timeoutRef,
          aborted, timers, ops>>

\* what the component shows or sends besides its state
outputs == <<toast, fetchCount>>

\* the state of the backend process
serverVars == <<openai, hits, exchange, healthRun>>

\* the state of the sample viewer
viewerVars == <<isOpen, pdfError, pdfLoading, heads, loadingTimeouts, opens, iframe>>

allVars == <<vars, outputs, serverVars, exported, viewerVars>>

\* steps of the browser leave the backend alone
ServerIdle == UNCHANGED serverVars

\* no document
Nothing == [none |-> TRUE]

\* a step that writes to no window and downloads no file
NoExport == [window |-> Nothing, download |-> Nothing]

NothingExported == exported = NoExport

\* steps elsewhere export nothing and leave the sample viewer alone
ExportIdle == exported' = NoExport
ViewerIdle == UNCHANGED viewerVars

OpIds == 1..Len(ops)

(* --------------------------- payloads ---------------------------------- *)
\* mockResult of runDemo
DemoResult ==
  [origin |-> "demo",
   metadata |-> [fileName |-> DemoFileName, fileSize |-> DemoFileSize,
                 textLength |-> MockTextLength]]

\* mockResult of the fallback timer: built from the file analyzeProposal closed over
FallbackResult(f) ==
  [origin |-> "fallback", summaryFile |-> f.name,
   metadata |-> [fileName |-> f.name, fileSize |-> f.size,
                 textLength |-> MockTextLength]]

\* a 200 body of the analysis endpoint for upload f: the model output v plus
\* the metadata the endpoint attaches
ServerBody(f, v) ==
  [origin |-> "server", analysis |-> v,
   metadata |-> [fileName |-> f.name, fileSize |-> f.size, textLength |-> v]]

responseOk(status) == status \in 200..299

(* --------------------------- helpers ----------------------------------- *)
\* an awaited promise of an aborted request is rejected with AbortError; its
\* continuation runs before any other event
InFlight(o) == ops[o].pc \in {"fetch", "json"}
MicrotaskPending == \E o \in OpIds : InFlight(o) /\ o \in aborted

TimerIds == { timers[i].id : i \in 1..Len(timers) }
TimerPending(t) == t \in TimerIds
RemoveTimer(ts, t) == SelectSeq(ts, LAMBDA r : r.id # t)

TimerDelay(kind) == IF kind = "demo" THEN DemoDelay ELSE FallbackDelay

\* timers[i] can be the next to fire: no timer scheduled before it has a delay
\* that is not longer (that one is due earlier)
CanFire(i) ==
  \A j \in 1..(i - 1) : TimerDelay(timers[j].kind) > TimerDelay(timers[i].kind)

\* bookkeeping of one invocation: kind, the file it closed over, where it
\* waits (pc), whether resetAnalysis ran since it started, why its request
\* failed, and how many terminal outcomes it has emitted.  Once it has ended
\* only kind, reset and outcomes are kept, and reset only until the next
\* invocation starts.
NewOp(kind, f) ==
  [kind |-> kind, file |-> f, pc |-> IF kind = "demo" THEN "wait" ELSE "fetch",
   reset |-> FALSE, cause |-> "none", outcomes |-> 0]

DoneOp(kind, r, n) ==
  [kind |-> kind, file |-> Null, pc |-> "done",
   reset |-> r, cause |-> "none", outcomes |-> n]

\* invocation o ends, having emitted n more terminal outcomes
Finish(os, o, n) ==
  [os EXCEPT ![o] = DoneOp(os[o].kind, os[o].reset, os[o].outcomes + n)]

\* a new invocation k starts
Start(os, k) ==
  Append([o \in DOMAIN os |->
            IF os[o].pc = "done" THEN [os[o] EXCEPT !.reset = TRUE] ELSE os[o]], k)

\* o is superseded: resetAnalysis ran after it started, or a newer invocation has
Superseded(o) == ops[o].reset \/ o < Len(ops)

\* a callback that returns without touching the state emits Cancelled when
\* its invocation was superseded, and nothing otherwise
Silent(o) == IF Superseded(o) THEN 1 ELSE 0

\* resetAnalysis ran: every invocation so far is marked
MarkReset(os) == [o \in DOMAIN os |-> [os[o] EXCEPT !.reset = TRUE]]

\* clearTimeout(t) ends the wait of the invocation that scheduled t: Cancelled
ClearWait(os, t) ==
  IF t \in DOMAIN os /\ os[t].pc = "wait" THEN Finish(os, t, 1) ELSE os

(* ------------------------ backend: state ------------------------------ *)
\* client addresses the limiter tells apart
Clients == {"ip1", "ip2"}

\* no request handled yet
NoExchange == [none |-> TRUE]

\* the backend before its first request, without a model client
ServerDown ==
  /\ openai = FALSE
  /\ hits = [c \in Clients |-> 0]
  /\ exchange = NoExchange
  /\ healthRun = [c \in Clients |-> 0]

(* ----------------------- sample viewer: state -------------------------- *)
\* the viewer after its first render, closed
ViewerClosed ==
  /\ isOpen = FALSE
  /\ pdfError = FALSE
  /\ pdfLoading = TRUE
  /\ heads = <<>>
  /\ loadingTimeouts = <<>>
  /\ opens = 0
  /\ iframe = "none"

(* ----------------------------- Init ------------------------------------ *)
\* the component after its first render
ClientInit ==
  /\ file = Null
  /\ loading = FALSE
  /\ result = Null
  /\ error = Null
  /\ abortControllerRef = NoController
  /\ timeoutRef = NoTimer
  /\ aborted = {}
  /\ timers = <<>>
  /\ ops = <<>>
  /\ toast = "none"
  /\ fetchCount = 0

Init == ClientInit /\ ServerDown /\ NothingExported /\ ViewerClosed

(* --------------------------- resetAnalysis ----------------------------- *)
\* the refs and timers after resetAnalysis
AbortedAfterReset ==
  IF abortControllerRef # NoController THEN aborted \cup {abortControllerRef} ELSE aborted
TimersAfterReset ==
  IF timeoutRef # NoTimer THEN RemoveTimer(timers, timeoutRef) ELSE timers
OpsAfterReset ==
  MarkReset(IF timeoutRef # NoTimer /\ TimerPending(timeoutRef)
              THEN ClearWait(ops, timeoutRef) ELSE ops)

ResetKeepsController ==
  /\ aborted' = AbortedAfterReset
  /\ abortControllerRef' = abortControllerRef
  /\ timers' = TimersAfterReset
  /\ timeoutRef' = NoTimer
  /\ result' = Null
  /\ error' = Null

\* what resetAnalysis does to everything but file, loading and ops
ResetEffect ==
  /\ aborted' = AbortedAfterReset
  /\ abortControllerRef' = NoController
  /\ timers' = TimersAfterReset
  /\ timeoutRef' = NoTimer
  /\ result' = Null
  /\ error' = Null

\* "Start Over" (file selected, not loading) and "Reset" (a result is shown)
resetAnalysis ==
  /\ ~MicrotaskPending
  /\ (file # Null /\ ~loading) \/ result # Null
  /\ ResetEffect
  /\ loading' = FALSE
  /\ ops' = OpsAfterReset
  /\ UNCHANGED file
  /\ toast' = "success"
  /\ UNCHANGED fetchCount
  /\ ServerIdle
  /\ ExportIdle
  /\ ViewerIdle

\* "Upload Different File": resetAnalysis(); setFile(null)
UploadDifferentFile ==
  /\ ~MicrotaskPending
  /\ file # Null
  /\ ResetEffect
  /\ loading' = FALSE
  /\ ops' = OpsAfterReset
  /\ file' = Null
  /\ toast' = "success"
  /\ UNCHANGED fetchCount
  /\ ServerIdle
  /\ ExportIdle
  /\ ViewerIdle

(* ------------------------------ onDrop --------------------------------- *)
AcceptsAnyFile(acceptedFiles) == Len(acceptedFiles) > 0

AcceptsDrop(acceptedFiles) ==
  /\ Len(acceptedFiles) > 0
  /\ acceptedFiles[1].type = PdfType

\* the dropzone is rendered only while no file is selected
onDrop(acceptedFiles) ==
  /\ ~MicrotaskPending
  /\ file = Null
  /\ IF AcceptsDrop(acceptedFiles)
       THEN /\ ResetEffect
            /\ loading' = FALSE
            /\ ops' = OpsAfterReset
            /\ file' = acceptedFiles[1]
            /\ toast' = "success"
       ELSE /\ toast' = "error"
            /\ UNCHANGED vars
  /\ UNCHANGED fetchCount
  /\ ServerIdle
  /\ ExportIdle
  /\ ViewerIdle

(* ------------------------------ runDemo -------------------------------- *)
\* "Start Demo Analysis" (disabled while loading) and "Try Another Demo"
\* (shown with a result, never disabled)
runDemo ==
  /\ ~MicrotaskPending
  /\ ~loading \/ result # Null
  /\ Len(ops) < MaxOps
  /\ LET d == Len(ops) + 1 IN
       /\ aborted' = AbortedAfterReset
       /\ abortControllerRef' = NoController
       /\ result' = Null
       /\ error' = Null
       /\ loading' = TRUE
       /\ file' = demoFile
       /\ timers' = Append(TimersAfterReset, [id |-> d, kind |-> "demo"])
       /\ timeoutRef' = d
       /\ ops' = Start(OpsAfterReset, NewOp("demo", demoFile))
       /\ toast' = "success"
       /\ UNCHANGED fetchCount
       /\ ServerIdle
       /\ ExportIdle
       /\ ViewerIdle

\* the demo timer callback returns at once when timeoutRef.current === null
demoTimerCancelled == timeoutRef = NoTimer

demoTimerFires(i) ==
  /\ ~MicrotaskPending
  /\ i \in 1..Len(timers)
  /\ timers[i].kind = "demo"
  /\ CanFire(i)
  /\ LET d == timers[i].id IN
       /\ timers' = RemoveTimer(timers, d)
       /\ IF demoTimerCancelled
            THEN /\ ops' = Finish(ops, d, Silent(d))
                 /\ UNCHANGED <<result, loading, timeoutRef, toast>>
            ELSE /\ result' = DemoResult
                 /\ loading' = FALSE
                 /\ timeoutRef' = NoTimer
                 /\ ops' = Finish(ops, d, 1)
                 /\ toast' = "success"
       /\ UNCHANGED <<file, error, abortControllerRef, aborted, fetchCount>>
       /\ ServerIdle
       /\ ExportIdle
       /\ ViewerIdle

(* --------------------------- analyzeProposal --------------------------- *)
\* "Analyze Proposal Now": rendered with a file, disabled while loading
analyzeProposal ==
  /\ ~MicrotaskPending
  /\ file # Null
  /\ ~loading
  /\ Len(ops) < MaxOps
  /\ LET a == Len(ops) + 1 IN
       /\ aborted' = IF abortControllerRef # NoController
                       THEN aborted \cup {abortControllerRef} ELSE aborted
       /\ abortControllerRef' = a
       /\ loading' = TRUE
       /\ error' = Null
       /\ ops' = Start(ops, NewOp("analyze", file))
       /\ fetchCount' = fetchCount + 1
       /\ UNCHANGED <<file, result, timeoutRef, timers, toast>>
       /\ ServerIdle
       /\ ExportIdle
       /\ ViewerIdle

\* abortControllerRef.current?.signal.aborted
CurrentSignalAborted ==
  abortControllerRef # NoController /\ abortControllerRef \in aborted

FinallyKeepsLoading ==
  /\ loading' = loading
  /\ abortControllerRef' = NoController

\* finally { setLoading(false); abortControllerRef.current = null }
Finally ==
  /\ loading' = FALSE
  /\ abortControllerRef' = NoController

CatchSetsError(o, why) ==
  /\ timers' = Append(timers, [id |-> o, kind |-> "fallback"])
  /\ timeoutRef' = o
  /\ ops' = [ops EXCEPT ![o].pc = "wait", ![o].cause = why]
  /\ Finally
  /\ error' = [message |-> "Analysis failed"]
  /\ UNCHANGED <<file, result, aborted, toast, fetchCount>>
  /\ ServerIdle
  /\ ExportIdle
  /\ ViewerIdle

CatchRetries(o, why) ==
  /\ timers' = Append(timers, [id |-> o, kind |-> "fallback"])
  /\ timeoutRef' = o
  /\ ops' = [ops EXCEPT ![o].pc = "wait", ![o].cause = why]
  /\ Finally
  /\ fetchCount' = fetchCount + 1
  /\ UNCHANGED <<file, result, error, aborted, toast>>
  /\ ServerIdle
  /\ ExportIdle
  /\ ViewerIdle

\* catch of an error that is not an AbortError: schedule the fallback timer
\* (timeoutRef is overwritten, a timer it named is not cleared), then finally
CatchFallback(o, why) ==
  /\ timers' = Append(timers, [id |-> o, kind |-> "fallback"])
  /\ timeoutRef' = o
  /\ ops' = [ops EXCEPT ![o].pc = "wait", ![o].cause = why]
  /\ Finally
  /\ UNCHANGED <<file, result, error, aborted, toast, fetchCount>>
  /\ ServerIdle
  /\ ExportIdle
  /\ ViewerIdle

\* the request is still travelling: it was sent and not aborted
Settles(o, stage) ==
  /\ ~MicrotaskPending
  /\ o \in OpIds
  /\ ops[o].pc = stage
  /\ o \notin aborted

\* why a request failed: a 400 of the endpoint (no file, no extractable
\* text, upload too large), another non-success status, no response at all
\* ("transport"), or a body that is not JSON ("body")
StatusCause(status) == IF status = 400 THEN "400" ELSE "status"

\* await fetch(...) resolves with a response of the given status
fetchResolves(o, status) ==
  /\ Settles(o, "fetch")
  /\ IF responseOk(status)
       THEN /\ ops' = [ops EXCEPT ![o].pc = "json", ![o].cause = "ok"]
            /\ UNCHANGED <<file, loading, result, error, abortControllerRef,
                           timeoutRef, aborted, timers, toast, fetchCount>>
            /\ ServerIdle
            /\ ExportIdle
            /\ ViewerIdle
       ELSE CatchFallback(o, StatusCause(status))

\* await fetch(...) rejects: the service cannot be reached
fetchRejects(o) ==
  /\ Settles(o, "fetch")
  /\ CatchFallback(o, "transport")

\* await response.json() resolves with the body
jsonResolves(o, v) ==
  /\ Settles(o, "json")
  /\ IF CurrentSignalAborted
       THEN /\ ops' = Finish(ops, o, Silent(o))
            /\ UNCHANGED <<result, toast>>
       ELSE /\ result' = ServerBody(ops[o].file, v)
            /\ ops' = Finish(ops, o, 1)
            /\ toast' = "success"
  /\ Finally
  /\ UNCHANGED <<file, error, timeoutRef, aborted, timers, fetchCount>>
  /\ ServerIdle
  /\ ExportIdle
  /\ ViewerIdle

\* await response.json() rejects: the body is not JSON
jsonRejects(o) ==
  /\ Settles(o, "json")
  /\ CatchFallback(o, "body")

\* the awaited promise of an aborted request rejects with AbortError:
\* catch returns, finally runs
abortRejects(o) ==
  /\ o \in OpIds
  /\ InFlight(o)
  /\ o \in aborted
  /\ ops' = Finish(ops, o, 1)
  /\ Finally
  /\ UNCHANGED <<file, result, error, timeoutRef, aborted, timers, toast, fetchCount>>
  /\ ServerIdle
  /\ ExportIdle
  /\ ViewerIdle

\* the fallback timer callback returns at once when
\* timeoutRef.current === null || abortControllerRef.current?.signal.aborted
fallbackTimerCancelled == timeoutRef = NoTimer \/ CurrentSignalAborted

fallbackTimerFires(i) ==
  /\ ~MicrotaskPending
  /\ i \in 1..Len(timers)
  /\ timers[i].kind = "fallback"
  /\ CanFire(i)
  /\ LET o == timers[i].id IN
       /\ timers' = RemoveTimer(timers, o)
       /\ IF fallbackTimerCancelled
            THEN /\ ops' = Finish(ops, o, Silent(o))
                 /\ UNCHANGED <<result, timeoutRef, toast>>
            ELSE /\ result' = FallbackResult(ops[o].file)
                 /\ timeoutRef' = NoTimer
                 /\ ops' = Finish(ops, o, 1)
                 /\ toast' = "success"
       /\ UNCHANGED <<file, loading, error, abortControllerRef, aborted, fetchCount>>
       /\ ServerIdle
       /\ ExportIdle
       /\ ViewerIdle

(* ------------------------------ exports -------------------------------- *)
\* JavaScript values: strings, numbers, arrays and objects with their
\* members in insertion order
JsString(str) == [t |-> "string", s |-> str]
JsNumber(n) == [t |-> "number", n |-> n]
JsArray(items) == [t |-> "array", items |-> items]
JsObject(members) == [t |-> "object", members |-> members]
Member(key, value) == [key |-> key, value |-> value]

\* the AnalysisResult object a result stands for
AnalysisObject(r) ==
  JsObject(<<
    Member("executiveSummary", JsString(r.origin)),
    Member("keyRequirements", JsArray(<<JsString("requirement")>>)),
    Member("pricingOverview",
           JsObject(<<Member("totalAmount", JsString("amount")),
                      Member("breakdown", JsArray(<<JsString("item 1"), JsString("item 2")>>)),
                      Member("paymentTerms", JsString("terms"))>>)),
    Member("recommendedNextSteps", JsArray(<<JsString("step")>>)),
    Member("metadata",
           JsObject(<<Member("fileName", JsString(r.metadata.fileName)),
                      Member("fileSize", JsNumber(r.metadata.fileSize)),
                      Member("processedAt", JsString("ISO date")),
                      Member("textLength", JsNumber(r.metadata.textLength))>>)) >>)

\* the decimal digits of a natural number, and back
RECURSIVE Digits(_)
Digits(n) == IF n < 10 THEN <<n>> ELSE Append(Digits(n \div 10), n % 10)

RECURSIVE FromDigits(_)
FromDigits(ds) ==
  IF Len(ds) = 1 THEN ds[1]
  ELSE FromDigits(SubSeq(ds, 1, Len(ds) - 1)) * 10 + ds[Len(ds)]

StringifyFlat(v) == [t |-> "string", lexeme |-> "[object Object]"]

\* JSON.stringify(value, null, 2): the JSON text, as the tree of its
\* lexemes; a number is written in decimal digits
RECURSIVE Stringify(_)
Stringify(v) ==
  IF v.t = "number" THEN [t |-> "number", lexeme |-> Digits(v.n)]
  ELSE IF v.t = "string" THEN [t |-> "string", lexeme |-> v.s]
  ELSE IF v.t = "array"
    THEN [t |-> "array",
          items |-> [i \in 1..Len(v.items) |-> Stringify(v.items[i])]]
  ELSE [t |-> "object",
        members |-> [i \in 1..Len(v.members) |->
                       [key |-> v.members[i].key,
                        text |-> Stringify(v.members[i].value)]]]

\* JSON.parse
RECURSIVE Parse(_)
Parse(x) ==
  IF x.t = "number" THEN JsNumber(FromDigits(x.lexeme))
  ELSE IF x.t = "string" THEN JsString(x.lexeme)
  ELSE IF x.t = "array"
    THEN JsArray([i \in 1..Len(x.items) |-> Parse(x.items[i])])
  ELSE JsObject([i \in 1..Len(x.members) |->
                   Member(x.members[i].key, Parse(x.members[i].text))])

\* new Blob([content], {type})
Blob(type, content) == [type |-> type, content |-> content]

\* "Export JSON"
exportResultsAsJSON ==
  /\ ~MicrotaskPending
  /\ IF result = Null
       THEN /\ exported' = NoExport
            /\ UNCHANGED toast
       ELSE /\ exported' = [window |-> Nothing,
                            download |-> Blob("application/json",
                                              Stringify(AnalysisObject(result)))]
            /\ toast' = "success"
  /\ UNCHANGED <<vars, fetchCount>>
  /\ ServerIdle
  /\ ViewerIdle

\* formatFileSize: the size in hundredths of the largest unit that fits
RECURSIVE SizeUnit(_)
SizeUnit(bytes) == IF bytes < 1024 THEN 0 ELSE 1 + SizeUnit(bytes \div 1024)

RECURSIVE Pow1024(_)
Pow1024(i) == IF i = 0 THEN 1 ELSE 1024 * Pow1024(i - 1)

formatFileSize(bytes) ==
  IF bytes = 0 THEN [hundredths |-> 0, unit |-> "Bytes"]
  ELSE LET i == SizeUnit(bytes) IN
         [hundredths |-> (bytes * 100 + Pow1024(i) \div 2) \div Pow1024(i),
          unit |-> <<"Bytes", "KB", "MB", "GB">>[i + 1]]

\* htmlContent: the report rendered from the result
Html(r) ==
  [analysis |-> r.origin,
   fileName |-> r.metadata.fileName,
   fileSize |-> formatFileSize(r.metadata.fileSize),
   textLength |-> r.metadata.textLength]

exportsBoth(opened) ==
  /\ ~MicrotaskPending
  /\ IF result = Null
       THEN /\ exported' = NoExport
            /\ UNCHANGED toast
       ELSE /\ exported' = [window |-> Blob("text/html", Html(result)),
                            download |-> Blob("text/html", Html(result))]
            /\ toast' = "success"
  /\ UNCHANGED <<vars, fetchCount>>
  /\ ServerIdle
  /\ ViewerIdle

\* "Export PDF": window.open returned a window (opened) or null
exportResultsAsPDF(opened) ==
  /\ ~MicrotaskPending
  /\ IF result = Null
       THEN /\ exported' = NoExport
            /\ UNCHANGED toast
       ELSE /\ exported' = IF opened
                             THEN [window |-> Blob("text/html", Html(result)),
                                   download |-> Nothing]
                             ELSE [window |-> Nothing,
                                   download |-> Blob("text/html", Html(result))]
            /\ toast' = "success"
  /\ UNCHANGED <<vars, fetchCount>>
  /\ ServerIdle
  /\ ViewerIdle

Next ==
  \/ resetAnalysis
  \/ UploadDifferentFile
  \/ \E fs \in AcceptedFileLists : onDrop(fs)
  \/ runDemo
  \/ analyzeProposal
  \/ \E o \in 1..MaxOps :
       \/ \E status \in {OkStatus} \cup NonOkStatuses : fetchResolves(o, status)
       \/ fetchRejects(o)
       \/ \E v \in 1..MaxBodies : jsonResolves(o, v)
       \/ jsonRejects(o)
       \/ abortRejects(o)
  \/ \E i \in 1..MaxOps :
       \/ demoTimerFires(i)
       \/ fallbackTimerFires(i)

Spec == Init /\ [][Next]_allVars

\* invocations of runDemo and analyzeProposal before and between exports
MaxExportOps == 2

\* the lifecycle up to MaxExportOps invocations, with the two exports
ExportNext ==
  \/ exportResultsAsJSON
  \/ \E opened \in BOOLEAN : exportResultsAsPDF(opened)
  \/ resetAnalysis
  \/ UploadDifferentFile
  \/ \E fs \in AcceptedFileLists : onDrop(fs)
  \/ Len(ops) < MaxExportOps /\ runDemo
  \/ Len(ops) < MaxExportOps /\ analyzeProposal
  \/ \E o \in 1..MaxExportOps :
       \/ \E status \in {OkStatus} \cup NonOkStatuses : fetchResolves(o, status)
       \/ fetchRejects(o)
       \/ \E v \in 1..MaxBodies : jsonResolves(o, v)
       \/ jsonRejects(o)
       \/ abortRejects(o)
  \/ \E i \in 1..MaxExportOps :
       \/ demoTimerFires(i)
       \/ fallbackTimerFires(i)

ExportSpec == Init /\ [][ExportNext]_allVars

TypeOK ==
  /\ loading \in BOOLEAN
  /\ error = Null
  /\ aborted \subseteq OpIds
  /\ TimerIds \subseteq OpIds
  /\ Len(ops) <= MaxOps

(* ======================= backend: server.js ============================ *)
\* requests a client may send beyond the limit before the window expires
MaxOver == 1

\* limiter: max requests per client address and window
RateMax == 10
RateLimitMessage == "Too many requests from this IP, please try again later."

\* multer limits.fileSize
MaxFileSize == 10 * 1024 * 1024

\* steps of the backend leave the browser alone
ClientIdle == UNCHANGED <<vars, outputs>>

(* ------------------------------ texts ---------------------------------- *)
\* a text is a sequence of characters; " " stands for any white space
IsSpace(ch) == ch = " "

RECURSIVE TrimStart(_)
TrimStart(t) ==
  IF t # <<>> /\ IsSpace(Head(t)) THEN TrimStart(Tail(t)) ELSE t

RECURSIVE TrimEnd(_)
TrimEnd(t) ==
  IF t # <<>> /\ IsSpace(t[Len(t)]) THEN TrimEnd(SubSeq(t, 1, Len(t) - 1)) ELSE t

\* String.prototype.trim
Trim(t) == TrimEnd(TrimStart(t))

OnlyEmptyText(t) == t = <<>>

\* !extractedText || extractedText.trim().length === 0
NoTextExtracted(t) == t = <<>> \/ Len(Trim(t)) = 0

(* ------------------------- inputs of a request ------------------------- *)
\* what pdfParse makes of the uploaded bytes: it throws, or returns a text
Extractions ==
  { [readable |-> FALSE, text |-> <<>>] } \cup
  { [readable |-> TRUE, text |-> t] :
      t \in { <<>>, <<" ", " ">>, <<"x">>, <<" ", "x", "y", " ">> } }

\* JSON values the model may answer with
SummaryFields ==
  [executiveSummary |-> "summary", keyRequirements |-> "requirements",
   pricingOverview |-> [totalAmount |-> "amount", breakdown |-> "items",
                        paymentTerms |-> "terms"],
   recommendedNextSteps |-> "steps"]

ForeignMetadata ==
  [fileName |-> "other.pdf", fileSize |-> 1, textLength |-> 0]

JsonValues ==
  { [t |-> "object", fields |-> SummaryFields],
    [t |-> "object",
     fields |-> [executiveSummary |-> "summary", keyRequirements |-> "requirements",
                 pricingOverview |-> [totalAmount |-> "amount", breakdown |-> "items",
                                      paymentTerms |-> "terms"],
                 recommendedNextSteps |-> "steps", metadata |-> ForeignMetadata]],
    [t |-> "object", fields |-> [answer |-> "summary"]],
    [t |-> "scalar", fields |-> <<>>] }

\* what openai.chat.completions.create does: it throws (with or without
\* 'API key' in the message), or returns content that is JSON or is not
ModelAnswers ==
  { [threw |-> TRUE, mentionsApiKey |-> k, json |-> FALSE, value |-> [t |-> "scalar", fields |-> <<>>]] :
      k \in BOOLEAN } \cup
  { [threw |-> FALSE, mentionsApiKey |-> FALSE, json |-> FALSE, value |-> [t |-> "scalar", fields |-> <<>>]] } \cup
  { [threw |-> FALSE, mentionsApiKey |-> FALSE, json |-> TRUE, value |-> v] : v \in JsonValues }

DefaultExtraction == [readable |-> TRUE, text |-> <<" ", "x", "y", " ">>]
DefaultAnswer == [threw |-> FALSE, mentionsApiKey |-> FALSE, json |-> TRUE,
                  value |-> [t |-> "object", fields |-> SummaryFields]]

\* a request that carries no upload
NoUpload ==
  [hasFile |-> FALSE, name |-> "", type |-> "", size |-> 0,
   extraction |-> DefaultExtraction, answer |-> DefaultAnswer]

Upload(type, size, extraction, answer) ==
  [hasFile |-> TRUE, name |-> "a.pdf", type |-> type, size |-> size,
   extraction |-> extraction, answer |-> answer]

\* the multipart requests sent to POST /api/analyze-proposal: without a file,
\* with a file of another type, with a PDF over the size limit, and with a
\* PDF within it for every extraction and for every model answer
Uploads ==
  { NoUpload } \cup
  { Upload("text/plain", sz, DefaultExtraction, DefaultAnswer) :
      sz \in {MaxFileSize, MaxFileSize + 1} } \cup
  { Upload(PdfType, MaxFileSize + 1, DefaultExtraction, DefaultAnswer) } \cup
  { Upload(PdfType, MaxFileSize, e, DefaultAnswer) : e \in Extractions } \cup
  { Upload(PdfType, MaxFileSize, e, a) :
      e \in {x \in Extractions : x.readable /\ ~NoTextExtracted(x.text)},
      a \in ModelAnswers }

(* ----------------------------- responses ------------------------------- *)
Response(status, body) == [status |-> status, body |-> body]

\* what handling one request did: the responses sent, whether pdfParse was
\* called and whether the model was called
Reply(status, body, parsed, asked) ==
  [sent |-> <<Response(status, body)>>, parsed |-> parsed, asked |-> asked]

ErrorBody(text) == [error |-> text]

\* { ...analysis }
Spread(v) == IF v.t = "object" THEN v.fields ELSE <<>>

MetadataFirst(v, meta) ==
  [k \in (DOMAIN Spread(v)) \cup {"metadata"} |->
     IF k \in DOMAIN Spread(v) THEN Spread(v)[k] ELSE meta]

\* { ...analysis, metadata: {...} }: a later key replaces an earlier one
WithMetadata(v, meta) ==
  [k \in (DOMAIN Spread(v)) \cup {"metadata"} |->
     IF k = "metadata" THEN meta ELSE Spread(v)[k]]

Metadata(req) ==
  [fileName |-> req.name, fileSize |-> req.size,
   textLength |-> Len(req.extraction.text)]

NotConfiguredBare == [error |-> "AI service configuration error"]

NotConfiguredBody ==
  [error |-> "AI service configuration error",
   message |-> "OpenAI API key not configured. Please set OPENAI_API_KEY in environment variables.",
   suggestion |-> "Try the demo mode in the frontend for a sample analysis."]

catchFallsThrough(mentionsApiKey, parsed, asked) ==
  [sent |-> (IF mentionsApiKey
               THEN <<Response(500, ErrorBody("AI service configuration error"))>>
               ELSE <<>>)
            \o <<Response(500, ErrorBody("Failed to process proposal"))>>,
   parsed |-> parsed, asked |-> asked]

\* catch (error) of the route handler
catchHandler(mentionsApiKey, parsed, asked) ==
  IF mentionsApiKey
    THEN Reply(500, ErrorBody("AI service configuration error"), parsed, asked)
    ELSE Reply(500, ErrorBody("Failed to process proposal"), parsed, asked)

\* the route handler of POST /api/analyze-proposal
analyzeHandler(req, configured) ==
  IF ~req.hasFile
    THEN Reply(400, ErrorBody("No PDF file uploaded"), FALSE, FALSE)
  ELSE IF ~req.extraction.readable
    THEN catchHandler(FALSE, TRUE, FALSE)
  ELSE IF NoTextExtracted(req.extraction.text)
    THEN Reply(400, ErrorBody("Could not extract text from PDF"), TRUE, FALSE)
  ELSE IF ~configured
    THEN Reply(503, NotConfiguredBody, TRUE, FALSE)
  ELSE IF req.answer.threw
    THEN catchHandler(req.answer.mentionsApiKey, TRUE, TRUE)
  ELSE IF ~req.answer.json
    THEN Reply(500, ErrorBody("Failed to process AI response"), TRUE, TRUE)
  ELSE Reply(200, WithMetadata(req.answer.value, Metadata(req)), TRUE, TRUE)

\* error handling middleware
errorMiddleware(isMulterError, code) ==
  IF isMulterError /\ code = "LIMIT_FILE_SIZE"
    THEN Reply(400, ErrorBody("File too large. Maximum size is 10MB."), FALSE, FALSE)
    ELSE Reply(500, ErrorBody("Internal server error"), FALSE, FALSE)

\* multer fileFilter
fileFilterAccepts(req) == req.type = PdfType

\* upload.single('pdf') in front of the route handler
uploadSingle(req, configured) ==
  IF req.hasFile /\ ~fileFilterAccepts(req)
    THEN errorMiddleware(FALSE, "")
  ELSE IF req.hasFile /\ req.size > MaxFileSize
    THEN errorMiddleware(TRUE, "LIMIT_FILE_SIZE")
  ELSE analyzeHandler(req, configured)

limiterBlocksAtMax(count) == count >= RateMax

\* the limiter in front of every /api/ route
limiterBlocks(count) == count > RateMax

(* ------------------------------ actions -------------------------------- *)
\* the run of health checks of a client after one more request to route
HealthRunAfter(run, route) ==
  IF route = "health" /\ run >= 0 THEN run + 1 ELSE -1

\* app.use('/api/', limiter) in front of a route: the request of client c is
\* counted, then refused with 429 or handed to the route, whose reply is sent
throughLimiter(c, route, req, reply) ==
  /\ hits[c] < RateMax + MaxOver
  /\ hits' = [hits EXCEPT ![c] = @ + 1]
  /\ healthRun' = [healthRun EXCEPT ![c] = HealthRunAfter(@, route)]
  /\ LET limited == limiterBlocks(hits[c] + 1)
         sends == IF limited
                    THEN Reply(429, [text |-> RateLimitMessage], FALSE, FALSE)
                    ELSE reply
     IN exchange' = [route |-> route, client |-> c, nth |-> hits[c] + 1,
                     healthBefore |-> healthRun[c],
                     req |-> req, limited |-> limited,
                     sent |-> sends.sent, parsed |-> sends.parsed,
                     asked |-> sends.asked]
  /\ UNCHANGED openai
  /\ ClientIdle
  /\ ExportIdle
  /\ ViewerIdle

postAnalyzeProposal(c, req) ==
  /\ req \in Uploads
  /\ throughLimiter(c, "analyze", req, uploadSingle(req, openai))

getHealthUncounted(c) ==
  /\ healthRun[c] < RateMax + MaxOver
  /\ healthRun' = [healthRun EXCEPT ![c] = HealthRunAfter(@, "health")]
  /\ exchange' = [route |-> "health", client |-> c, nth |-> hits[c],
                  healthBefore |-> healthRun[c], req |-> NoUpload,
                  limited |-> FALSE,
                  sent |-> <<Response(200, [status |-> "OK", message |-> "Server is running"])>>,
                  parsed |-> FALSE, asked |-> FALSE]
  /\ UNCHANGED <<openai, hits>>
  /\ ClientIdle
  /\ ExportIdle
  /\ ViewerIdle

\* GET /api/health
getHealth(c) ==
  /\ c \in Clients
  /\ throughLimiter(c, "health", NoUpload,
                    Reply(200, [status |-> "OK", message |-> "Server is running"],
                          FALSE, FALSE))

\* GET /api/sample-pdf: the file is streamed, or it does not exist
getSamplePdf(c, exists) ==
  /\ c \in Clients
  /\ throughLimiter(c, "sample-pdf", NoUpload,
                    IF exists
                      THEN Reply(200, [stream |-> "sample.pdf"], FALSE, FALSE)
                      ELSE Reply(404, ErrorBody("Sample PDF not found"), FALSE, FALSE))

\* the limiter's window of a client ends
windowExpires(c) ==
  /\ hits[c] > 0
  /\ hits' = [hits EXCEPT ![c] = 0]
  /\ healthRun' = [healthRun EXCEPT ![c] = 0]
  /\ UNCHANGED <<openai, exchange>>
  /\ ClientIdle
  /\ ExportIdle
  /\ ViewerIdle

\* the model client exists when OPENAI_API_KEY is set at startup
ServerInit ==
  /\ ClientInit
  /\ NothingExported
  /\ ViewerClosed
  /\ openai \in BOOLEAN
  /\ hits = [c \in Clients |-> 0]
  /\ exchange = NoExchange
  /\ healthRun = [c \in Clients |-> 0]

ServerNext ==
  \/ \E c \in Clients, req \in Uploads : postAnalyzeProposal(c, req)
  \/ \E c \in Clients : getHealth(c)
  \/ \E c \in Clients, exists \in BOOLEAN : getSamplePdf(c, exists)
  \/ \E c \in Clients : windowExpires(c)

ServerSpec == ServerInit /\ [][ServerNext]_allVars

\* the request handled last was sent to POST /api/analyze-proposal
Handled == exchange # NoExchange /\ exchange.route = "analyze"

(* ===================== sample viewer: SampleViewer.tsx ================= *)
\* times the viewer is opened
MaxOpens == 3

SamplePdfUrl == "/Sample.pdf"

\* steps of the viewer leave the upload component and the backend alone
OutsideViewerIdle ==
  /\ UNCHANGED <<vars, fetchCount>>
  /\ ServerIdle

RemoveAt(q, i) == SubSeq(q, 1, i - 1) \o SubSeq(q, i + 1, Len(q))

\* setPdfError(true); setPdfLoading(false): the error panel replaces the iframe
ShowError ==
  /\ pdfError' = TRUE
  /\ pdfLoading' = FALSE
  /\ iframe' = "none"

\* isOpen becomes true: the effect resets the state and sends the HEAD
\* request; its callbacks close over the pdfLoading of this render
openViewer ==
  /\ ~isOpen
  /\ opens < MaxOpens
  /\ isOpen' = TRUE
  /\ opens' = opens + 1
  /\ pdfError' = FALSE
  /\ pdfLoading' = TRUE
  /\ iframe' = "loading"
  /\ heads' = Append(heads, [open |-> opens + 1, seen |-> pdfLoading])
  /\ UNCHANGED <<loadingTimeouts, toast>>
  /\ ExportIdle
  /\ OutsideViewerIdle

\* onClose: the component renders null; its state and timers stay
closeViewer ==
  /\ isOpen
  /\ isOpen' = FALSE
  /\ iframe' = "none"
  /\ UNCHANGED <<pdfError, pdfLoading, heads, loadingTimeouts, opens, toast>>
  /\ ExportIdle
  /\ OutsideViewerIdle

\* fetch('/Sample.pdf', {method: 'HEAD'}) resolves: when ok the loading
\* timeout is started (the function returned from then() is never called)
headResolves(i, ok) ==
  /\ i \in 1..Len(heads)
  /\ heads' = RemoveAt(heads, i)
  /\ IF ok
       THEN /\ loadingTimeouts' = Append(loadingTimeouts, heads[i])
            /\ UNCHANGED <<pdfError, pdfLoading, iframe>>
       ELSE /\ ShowError
            /\ UNCHANGED loadingTimeouts
  /\ UNCHANGED <<isOpen, opens, toast>>
  /\ ExportIdle
  /\ OutsideViewerIdle

\* the HEAD request fails
headRejects(i) ==
  /\ i \in 1..Len(heads)
  /\ heads' = RemoveAt(heads, i)
  /\ ShowError
  /\ UNCHANGED <<isOpen, opens, loadingTimeouts, toast>>
  /\ ExportIdle
  /\ OutsideViewerIdle

\* the loading timeout that was started first fires (all have the same
\* delay): if (pdfLoading) reads the value its closure captured
loadingTimeoutFires ==
  /\ loadingTimeouts # <<>>
  /\ loadingTimeouts' = Tail(loadingTimeouts)
  /\ IF Head(loadingTimeouts).seen
       THEN ShowError
       ELSE UNCHANGED <<pdfError, pdfLoading, iframe>>
  /\ UNCHANGED <<isOpen, opens, heads, toast>>
  /\ ExportIdle
  /\ OutsideViewerIdle

\* iframe onLoad
iframeLoad ==
  /\ isOpen
  /\ iframe = "loading"
  /\ pdfLoading' = FALSE
  /\ iframe' = "loaded"
  /\ UNCHANGED <<isOpen, pdfError, heads, loadingTimeouts, opens, toast>>
  /\ ExportIdle
  /\ OutsideViewerIdle

\* iframe onError
iframeError ==
  /\ isOpen
  /\ iframe = "loading"
  /\ ShowError
  /\ UNCHANGED <<isOpen, heads, loadingTimeouts, opens, toast>>
  /\ ExportIdle
  /\ OutsideViewerIdle

\* "Having trouble? Click here", shown while pdfLoading
havingTrouble ==
  /\ isOpen
  /\ ~pdfError
  /\ pdfLoading
  /\ ShowError
  /\ UNCHANGED <<isOpen, heads, loadingTimeouts, opens, toast>>
  /\ ExportIdle
  /\ OutsideViewerIdle

\* onLoad of the backup object, which is mounted next to the iframe
objectLoad ==
  /\ isOpen
  /\ ~pdfError
  /\ pdfError' = FALSE
  /\ pdfLoading' = FALSE
  /\ UNCHANGED <<isOpen, iframe, heads, loadingTimeouts, opens, toast>>
  /\ ExportIdle
  /\ OutsideViewerIdle

\* "Download PDF"
downloadPDF ==
  /\ isOpen
  /\ exported' = [window |-> Nothing, download |-> [link |-> SamplePdfUrl]]
  /\ toast' = "success"
  /\ UNCHANGED viewerVars
  /\ OutsideViewerIdle

\* "Open in New Tab"
openPDFInNewTab ==
  /\ isOpen
  /\ exported' = [window |-> [link |-> SamplePdfUrl], download |-> Nothing]
  /\ toast' = "success"
  /\ UNCHANGED viewerVars
  /\ OutsideViewerIdle

ViewerNext ==
  \/ openViewer
  \/ closeViewer
  \/ havingTrouble
  \/ \E i \in 1..MaxOpens : headRejects(i)
  \/ \E i \in 1..MaxOpens : \E ok \in BOOLEAN : headResolves(i, ok)
  \/ loadingTimeoutFires
  \/ iframeLoad
  \/ iframeError
  \/ objectLoad
  \/ downloadPDF
  \/ openPDFInNewTab

ViewerSpec == Init /\ [][ViewerNext]_allVars

(* ====================== properties of the lifecycle ==================== *)
\* invocation o has a request that was sent and not aborted, or a pending timer
Live(o) == (InFlight(o) /\ o \notin aborted) \/ TimerPending(o)

\* the step is one of invocation o's callbacks
CallbackOf(o) ==
  \/ \E status \in {OkStatus} \cup NonOkStatuses : fetchResolves(o, status)
  \/ fetchRejects(o)
  \/ \E v \in 1..MaxBodies : jsonResolves(o, v)
  \/ jsonRejects(o)
  \/ abortRejects(o)
  \/ \E i \in 1..Len(timers) :
       timers[i].id = o /\ (demoTimerFires(i) \/ fallbackTimerFires(i))

\* C1: once a newer invocation has started, no callback of an earlier one
\* (fetch success or failure, abort handling, fallback timer, demo timer)
\* changes result, loading or error.
C1_OnlyLatestMutates ==
  [][\A o \in 1..MaxOps :
       (o < Len(ops) /\ CallbackOf(o)) => UNCHANGED <<result, loading, error>>]_vars

\* C2: in every reachable state at most one invocation is live (un-aborted
\* request in flight, or fallback/demo timer pending).
C2_AtMostOneLive == Cardinality({o \in OpIds : Live(o)}) <= 1

\* C3: handling the AbortError of a superseded request changes nothing: file,
\* loading, result, error, both refs and the timers stay as they are.
C3_AbortHandlingIsNoOp ==
  [][\A o \in 1..MaxOps :
       abortRejects(o) =>
         UNCHANGED <<file, loading, result, error, abortControllerRef,
                     timeoutRef, timers>>]_vars

\* C5: when analyzeProposal starts, no fallback timer of an earlier
\* analyzeProposal stays pending.
C5_AnalyzeClearsFallbackTimer ==
  [][analyzeProposal =>
       \A i \in 1..Len(timers') : timers'[i].kind # "fallback"]_vars

\* C8: right after an accepted selection or the start of runDemo the previous
\* run is gone: no earlier request is un-aborted, no earlier timer is pending,
\* result and error are null and the newly chosen file is selected.
PreviousRunGone(chosen) ==
  /\ \A o \in OpIds : ~Live(o)'
  /\ result' = Null
  /\ error' = Null
  /\ file' = chosen

C8_NewSelectionClearsPreviousRun ==
  [][/\ runDemo => PreviousRunGone(demoFile)
     /\ \A fs \in AcceptedFileLists :
          (onDrop(fs) /\ AcceptsDrop(fs)) => PreviousRunGone(fs[1])]_vars

\* C4: every analyzeProposal invocation that has run to its end has emitted
\* exactly one terminal outcome (server result, fallback result, Cancelled,
\* Errored): never none, never two.
C4_ExactlyOneOutcome ==
  \A o \in OpIds :
    (ops[o].kind = "analyze" /\ ops[o].pc = "done") => ops[o].outcomes = 1

\* C6: when runDemo was the last user action and its timer has fired, loading
\* is false, the demo file is selected and result is the fixed demo payload
\* (fileName 'sample-proposal.pdf', fileSize 156789).
DemoRanToEnd(d) ==
  /\ d = Len(ops)
  /\ ops[d].kind = "demo"
  /\ ops[d].pc = "done"
  /\ ~ops[d].reset
  /\ ~MicrotaskPending

C6_DemoEndsWithDemoResult ==
  \A d \in OpIds :
    DemoRanToEnd(d) =>
      /\ loading = FALSE
      /\ file = demoFile
      /\ result = DemoResult
      /\ result.metadata.fileName = "sample-proposal.pdf"
      /\ result.metadata.fileSize = 156789

\* C7: a reset while a demo timer is pending returns the state to idle (no
\* file, no result, no error, not loading, no pending timer), and the timer of
\* a demo that was reset never sets the demo result afterwards.
DemoWaiting == \E d \in OpIds : ops[d].kind = "demo" /\ ops[d].pc = "wait"

Idle ==
  /\ file = Null
  /\ result = Null
  /\ error = Null
  /\ loading = FALSE
  /\ timers = <<>>

C7_ResetStopsDemo ==
  [][/\ ((resetAnalysis \/ UploadDifferentFile) /\ DemoWaiting) => Idle'
     /\ \A i \in 1..Len(timers) :
          (timers[i].kind = "demo" /\ ops[timers[i].id].reset /\ demoTimerFires(i))
            => UNCHANGED result]_vars

\* C9: when the fallback timer of a failed request fires and its invocation is
\* not superseded, result becomes the fallback payload carrying the name and
\* size of the submitted file, whatever made the request fail.
C9_FallbackCarriesSubmittedFile ==
  [][\A i \in 1..Len(timers) :
       (fallbackTimerFires(i) /\ ~Superseded(timers[i].id)) =>
          /\ result' = FallbackResult(ops[timers[i].id].file)
          /\ result'.metadata.fileName = ops[timers[i].id].file.name
          /\ result'.metadata.fileSize = ops[timers[i].id].file.size]_vars

\* C10: a fallback result is shown only for a transport error, never for a
\* request the service answered with 400.
C10_FallbackOnlyOnTransportError ==
  [][\A i \in 1..Len(timers) :
       (fallbackTimerFires(i) /\ ~fallbackTimerCancelled) =>
          ops[timers[i].id].cause = "transport"]_vars

(* ================== properties of results and requests ================= *)
\* the results an analysis or a demo run on file f can produce
ResultsFor(f) ==
  {FallbackResult(f)} \cup {ServerBody(f, v) : v \in 1..MaxBodies}
    \cup (IF f = demoFile THEN {DemoResult} ELSE {})

\* C11: a result that is shown belongs to the selected file: a file is
\* selected, and the result is one an analysis or demo run on that file
\* produces.
C11_ResultBelongsToSelectedFile ==
  result # Null => (file # Null /\ result \in ResultsFor(file))

\* a selection with no first file, or with a first file that is not a PDF
RejectedSelection(acceptedFiles) ==
  Len(acceptedFiles) = 0 \/ acceptedFiles[1].type # "application/pdf"

\* C12: a selection whose first accepted file is missing or is not a PDF
\* changes neither the file, loading, result, error, the in-flight request
\* nor the pending timers; only a warning is raised.
C12_RejectedSelectionChangesNothing ==
  [][\A fs \in AcceptedFileLists :
       (onDrop(fs) /\ RejectedSelection(fs)) =>
          /\ UNCHANGED <<file, loading, result, error, abortControllerRef,
                         timeoutRef, aborted, timers, ops>>
          /\ toast' = "error"]_allVars

C12_Witness == toast = "error" /\ file = Null /\ Len(ops) > 0

\* C13: when the body of a successful response arrives and the invocation is
\* not superseded, result becomes exactly that body, loading ends and no
\* fallback timer is scheduled.
C13_SuccessShowsParsedBody ==
  [][\A o \in OpIds : \A v \in 1..MaxBodies :
       (jsonResolves(o, v) /\ ~Superseded(o)) =>
          /\ result' = ServerBody(ops[o].file, v)
          /\ loading' = FALSE
          /\ timers' = timers
          /\ timeoutRef' = timeoutRef]_allVars

C13_Witness ==
  /\ result # Null
  /\ result.origin = "server"
  /\ ~loading
  /\ \E o \in OpIds : ops[o].kind = "analyze" /\ ops[o].pc = "done" /\ ~Superseded(o)

\* a step that starts an invocation of analyzeProposal
AnalyzeInvoked ==
  /\ Len(ops') = Len(ops) + 1
  /\ ops'[Len(ops')].kind = "analyze"

Answer == exchange.sent[1]

\* the limiter let the request through and it carries a PDF within the limit
PdfUploadHandled ==
  /\ Handled
  /\ ~exchange.limited
  /\ exchange.req.hasFile
  /\ exchange.req.type = "application/pdf"
  /\ exchange.req.size <= 10 * 1024 * 1024

\* a text with a character that is not white space
NonBlank(t) == \E i \in 1..Len(t) : t[i] # " "

\* text was extracted from the upload and it is not blank
TextExtracted ==
  exchange.req.extraction.readable /\ NonBlank(exchange.req.extraction.text)

\* the model answered with content that parses as JSON
OutputParseable == ~exchange.req.answer.threw /\ exchange.req.answer.json

\* a JSON value of the AnalysisResult shape
ShapeFields ==
  {"executiveSummary", "keyRequirements", "pricingOverview", "recommendedNextSteps"}

HasAnalysisShape(fields) ==
  /\ ShapeFields \subseteq DOMAIN fields
  /\ {"totalAmount", "breakdown", "paymentTerms"} \subseteq DOMAIN fields.pricingOverview

\* C15: an accepted upload (PDF, at most 10 MiB, non-blank extracted text,
\* model configured, model output parseable) is answered 200 with the
\* metadata of the submitted file: its name, its size and the length of the
\* extracted text, whatever metadata the model output carries.
C15_MetadataOfSubmittedFile ==
  (PdfUploadHandled /\ TextExtracted /\ openai /\ OutputParseable) =>
     /\ Len(exchange.sent) = 1
     /\ Answer.status = 200
     /\ Answer.body.metadata.fileName = exchange.req.name
     /\ Answer.body.metadata.fileSize = exchange.req.size
     /\ Answer.body.metadata.textLength = Len(exchange.req.extraction.text)

C15_Witness ==
  /\ PdfUploadHandled /\ TextExtracted /\ openai /\ OutputParseable
  /\ exchange.req.answer.value.t = "object"
  /\ "metadata" \in DOMAIN exchange.req.answer.value.fields
  /\ exchange.req.answer.value.fields.metadata.fileName # exchange.req.name
  /\ Len(Trim(exchange.req.extraction.text)) < Len(exchange.req.extraction.text)
  /\ Answer.status = 200

\* the model was asked and its output is not a JSON object of the shape
OutputMalformed ==
  /\ exchange.asked
  /\ ~exchange.req.answer.threw
  /\ ~ (/\ exchange.req.answer.json
        /\ exchange.req.answer.value.t = "object"
        /\ HasAnalysisShape(exchange.req.answer.value.fields))

\* C16: model output that is not a JSON object of the AnalysisResult shape
\* is answered 500 with AI_RESPONSE_UNPARSEABLE, and every 200 body has that
\* shape.
C16_MalformedOutputIsRejected ==
  Handled =>
    /\ OutputMalformed =>
         /\ Answer.status = 500
         /\ "error" \in DOMAIN Answer.body
         /\ Answer.body.error = "AI_RESPONSE_UNPARSEABLE"
    /\ Answer.status = 200 => HasAnalysisShape(Answer.body)

\* C17: an upload whose declared type is not application/pdf is rejected
\* with 400 (or 415) and an {error} body; neither the extractor nor the
\* model is invoked.
C17_WrongTypeIsRejected ==
  (Handled /\ ~exchange.limited /\ exchange.req.hasFile
     /\ exchange.req.type # "application/pdf") =>
     /\ Answer.status \in {400, 415}
     /\ "error" \in DOMAIN Answer.body
     /\ ~exchange.parsed
     /\ ~exchange.asked

\* C18: when the extractor raises, the answer is a typed 400 and the model
\* is not invoked.
C18_ExtractionFailureIs400 ==
  (PdfUploadHandled /\ ~exchange.req.extraction.readable) =>
     /\ Answer.status = 400
     /\ "error" \in DOMAIN Answer.body
     /\ ~exchange.asked

\* a PDF was handled whose extracted text is empty or only white space
BlankTextHandled ==
  /\ PdfUploadHandled
  /\ exchange.req.extraction.readable
  /\ ~NonBlank(exchange.req.extraction.text)

UnconfiguredHandled == PdfUploadHandled /\ TextExtracted /\ ~openai

\* C20 as stated: without a model credential every upload with non-blank
\* extracted text is answered 503 with the typed error AI_NOT_CONFIGURED
\* plus message and suggestion, and the model is never invoked.
C20_NotConfiguredTypedError ==
  UnconfiguredHandled =>
     /\ Answer.status = 503
     /\ Answer.body.error = "AI_NOT_CONFIGURED"
     /\ {"message", "suggestion"} \subseteq DOMAIN Answer.body
     /\ ~exchange.asked

\* C20 amended: such an upload is answered 503 with the error text
\* 'AI service configuration error' (there is no error code), a message and
\* a suggestion that points to the demo mode of the frontend, and the model
\* is never invoked.
C20_NotConfiguredIs503 ==
  UnconfiguredHandled =>
     /\ Len(exchange.sent) = 1
     /\ Answer.status = 503
     /\ DOMAIN Answer.body = {"error", "message", "suggestion"}
     /\ Answer.body.error = "AI service configuration error"
     /\ Answer.body.suggestion = "Try the demo mode in the frontend for a sample analysis."
     /\ ~exchange.asked

C20_Witness ==
  /\ UnconfiguredHandled
  /\ Answer.status = 503
  /\ ~exchange.asked
  /\ exchange.parsed

(* ================= properties of limits and responses ================== *)
\* C21: an upload larger than 10 MiB is answered 400, and neither the
\* extractor nor the model is invoked for it.
C21_OversizeIs400 ==
  (Handled /\ ~exchange.limited /\ exchange.req.hasFile
     /\ exchange.req.size > 10 * 1024 * 1024) =>
     /\ Answer.status = 400
     /\ ~exchange.parsed
     /\ ~exchange.asked

\* some request was handled, on any route
AnyHandled == exchange # NoExchange

\* C22: of the requests of one client address in one window, the first 10
\* are never answered 429 and the 11th is; a request changes the count of
\* its own address only.
C22_EleventhRequestIs429 ==
  /\ [](AnyHandled =>
          /\ exchange.nth <= 10 => Answer.status # 429
          /\ exchange.nth > 10 => Answer.status = 429)
  /\ [][\A c \in Clients : hits'[c] # hits[c] =>
           \A other \in Clients \ {c} : hits'[other] = hits[other]]_allVars

C22_Witness ==
  /\ AnyHandled
  /\ exchange.nth = 10
  /\ Answer.status # 429
  /\ \E other \in Clients \ {exchange.client} : hits[other] = 11

\* C28: a POST /api/analyze-proposal is answered exactly once, with status
\* 200, 400, 429, 500 or 503, also when the extractor or the model raises
\* or the model output is malformed.
C28_ExactlyOneResponse ==
  Handled =>
     /\ Len(exchange.sent) = 1
     /\ Answer.status \in {200, 400, 429, 500, 503}

C28_Witness ==
  /\ Handled
  /\ exchange.asked
  /\ exchange.req.answer.threw
  /\ exchange.req.answer.mentionsApiKey
  /\ Len(exchange.sent) = 1
  /\ Answer.status = 500

\* C29: health checks use the quota of their client address: after 10 of
\* them in a window the next analysis request of that address is answered 429.
C29_HealthChecksUseQuota ==
  (Handled /\ exchange.healthBefore >= 10) =>
     (exchange.limited /\ Answer.status = 429)

C29_Witness ==
  /\ Handled
  /\ exchange.healthBefore = 10
  /\ exchange.req.hasFile
  /\ Answer.status = 429

(* ================= properties of loading, error and handle ============= *)
\* invocation o of analyzeProposal waits for its fallback timer and has not
\* been superseded
InFallbackDelay(o) ==
  /\ ops[o].kind = "analyze"
  /\ ops[o].pc = "wait"
  /\ TimerPending(o)
  /\ ~Superseded(o)

\* C25: during the fallback delay of analyzeProposal the operation is still
\* analyzing: loading is true and the cancellation handle is the one of the
\* invocation, so no second analysis can be started.
C25_LoadingDuringFallbackDelay ==
  \A o \in OpIds : InFallbackDelay(o) => (loading /\ abortControllerRef = o)

\* C26: the error field is null in every reachable state.
C26_ErrorIsAlwaysNull == error = Null

C26_Witness ==
  /\ error = Null
  /\ result # Null
  /\ result.origin = "fallback"
  /\ \E o \in OpIds : ops[o].kind = "analyze" /\ ops[o].pc = "wait" /\ ops[o].cause = "400"

\* C27: between handlers the current cancellation handle is null or a
\* controller that was not aborted.
C27_CurrentHandleNeverAborted ==
  abortControllerRef = NoController \/ abortControllerRef \notin aborted

C27_Witness ==
  /\ aborted # {}
  /\ abortControllerRef # NoController
  /\ abortControllerRef \notin aborted
  /\ \E i \in 1..Len(timers) : timers[i].kind = "fallback" /\ Superseded(timers[i].id)

C24_DocumentToWindowOrDownload ==
  [][\A opened \in BOOLEAN :
       (exportResultsAsPDF(opened) /\ result # Null) =>
          /\ opened => (exported'.window = Blob("text/html", Html(result))
                          /\ exported'.download = Nothing)
          /\ ~opened => (exported'.download = Blob("text/html", Html(result))
                           /\ exported'.window = Nothing)
          /\ UNCHANGED <<file, loading, result, error>>
          /\ fetchCount' = fetchCount]_allVars

C24_Witness ==
  /\ result # Null
  /\ exported.window = Nothing
  /\ exported.download # Nothing
  /\ exported.download.type = "text/html"
  /\ fetchCount > 0

(* ==================== properties of the sample viewer ================== *)
\* C30: once the iframe's load event has set pdfLoading to false, the
\* loading timeout started in this opening of the viewer does not switch
\* the viewer to the error state.
C30_TimeoutAfterLoadShowsNoError ==
  [][(/\ loadingTimeoutFires
      /\ isOpen
      /\ iframe = "loaded"
      /\ ~pdfLoading
      /\ Head(loadingTimeouts).open = opens) => pdfError' = FALSE]_allVars
====
